---- MODULE Spec2Model ----
(***************************************************************************)
(* Model of the parallel multi-agent execution engine                      *)
(* (core/streamlit_parallel_engine.py), of its caller run_parallel_analysis*)
(* and of the sequential path run_analysis (main.py), and of the explicit  *)
(* reset (utils/streamlit_helpers.py).                                     *)
(*                                                                         *)
(* The script thread walks through pc; the two pool workers are the        *)
(* worker_start / worker_finish actions.  datetime.now() is the number of  *)
(* the current run (a clock that ticks once per button press).             *)
(***************************************************************************)
EXTENDS Integers, Sequences, FiniteSets, TLC

----------------------------------------------------------------------------
(* Bounds of the model *)

MaxRuns == 2          \* button presses explored in the degraded scenario
MaxHandles == 2       \* handles present in the degraded scenario
MaxContentLen == 2    \* characters of an agent's reply
MaxStreamAgents == 2  \* agents the sequential stream speaks about
MaxThreads == 3       \* threads that use a PaxnetCrawlClient
MaxEvents == 2        \* chunks of the sequential stream in the stream scenario

----------------------------------------------------------------------------
(* Program constants *)

agent_config ==
  << "context_expert", "sentiment_expert", "financial_expert",
     "advanced_technical_expert", "institutional_trading_expert",
     "comparative_expert", "esg_expert", "community_expert" >>

AgentNames == { agent_config[i] : i \in 1..Len(agent_config) }

MAX_CONCURRENCY == 2
QUORUM == 5
MIN_RESULTS == 3
RESULT_TIMEOUT == 300

NoneVal == 0           \* None in a timestamp field; real timestamps are >= 1
NoneStr == "<None>"    \* None in the error field

----------------------------------------------------------------------------
(* Text: a string is a sequence of characters; "w" is a whitespace         *)
(* character, "x" any other character, "M" the agent's completion signal   *)
(* (a block of non-whitespace characters that is found as a substring).    *)

Chars == {"w", "x", "M"}

Contents == UNION { [1..n -> Chars] : n \in 0..MaxContentLen }

RECURSIVE LStrip(_)
LStrip(s) == IF s # <<>> /\ Head(s) = "w" THEN LStrip(Tail(s)) ELSE s

RECURSIVE RStrip(_)
RStrip(s) ==
  IF s # <<>> /\ s[Len(s)] = "w" THEN RStrip(SubSeq(s, 1, Len(s) - 1)) ELSE s

\* str.strip()
Strip(s) == RStrip(LStrip(s))

\* completion_signal in content
Contains(s, c) == \E i \in 1..Len(s) : s[i] = c

\* _get_completion_signal: every registered agent has a non-empty signal.
CompletionSignal(a) == IF a \in AgentNames THEN <<"M">> ELSE <<>>

\* lines 209-212 without the test of line 211 for the signal being there
AppendSignal_always(a, content) ==
  Strip(content) \o <<"w", "w">> \o CompletionSignal(a)

\* lines 209-212: append the signal when it is set and absent
AppendSignal(a, content) ==
  IF CompletionSignal(a) # <<>> /\ ~Contains(content, "M")
  THEN Strip(content) \o <<"w", "w">> \o CompletionSignal(a)
  ELSE content

----------------------------------------------------------------------------
(* Agent handles: a handle is the set of replies agent.invoke may give,    *)
(* together with whether the call may take longer than RESULT_TIMEOUT.     *)

RaiseReply == [kind |-> "raise", content |-> <<>>]
NoMsgReply == [kind |-> "nomsg", content |-> <<>>]
MsgReply(c) == [kind |-> "msg", content |-> c]
GoodReply == MsgReply(<<"x">>)
NoReply == [kind |-> "none", content |-> <<>>]

AllReplies == {RaiseReply, NoMsgReply} \cup { MsgReply(c) : c \in Contents }

InvokeError == "invoke failed"
EmptyResponseError(a) == "empty response"
MissingAgentError(a) == "agent not found"

NoResult ==
  [agent_name |-> "", content |-> <<>>, status |-> "", execution_time |-> NoneVal]

\* _execute_single_agent_with_context, as a function of the handle's reply:
\* raised tells whether the call raises, exc is str(e), value the result.
Raised(msg) == [raised |-> TRUE, exc |-> msg, value |-> NoResult]

ExecuteSingle(a, hasHandle, reply, now) ==
  IF ~hasHandle THEN Raised(MissingAgentError(a))
  ELSE IF reply.kind = "raise" THEN Raised(InvokeError)
  ELSE IF reply.kind = "nomsg" THEN Raised(EmptyResponseError(a))
  ELSE [raised |-> FALSE, exc |-> "",
        value |-> [agent_name |-> a,
                   content |-> AppendSignal(a, reply.content),
                   status |-> "success",
                   execution_time |-> now]]

----------------------------------------------------------------------------
(* State *)

VARIABLES
  agents,            \* self.agents: agent name -> handle (its possible replies)
  slow,              \* handles whose invocation may exceed RESULT_TIMEOUT
  clicks_left,       \* button presses the user still makes
  events_left,       \* chunks the sequential stream still yields
  keys,              \* keys present in st.session_state
  parallel_results,
  parallel_progress,
  parallel_errors,
  parallel_execution_started,
  parallel_execution_completed,
  pc,                \* position of the script thread
  idx,               \* position of the submit loop in agent_config
  future_to_agent,   \* agents whose future was created
  yielded,           \* futures as_completed has handed out
  fut,               \* agent -> state of its future
  outcome,           \* agent -> outcome of its finished future
  late,              \* agents whose invocation took longer than RESULT_TIMEOUT
  reply_of,          \* agent -> what its handle answered in this run
  ret,               \* value returned by execute_agents_parallel
  sched_error,       \* an exception left the with block of lines 94-174
  run,               \* number of the current run; the clock of datetime.now()
  err_run,           \* agent -> run that wrote its parallel_errors entry
  invoked,           \* agent -> number of invocations of its handle in this run
  warned,            \* st.warning of the strategy switch shown in this run
  synth_calls,       \* calls of generate_comprehensive_report in this run
  stored_report,     \* run whose report is in st.session_state.final_report
  agent_states,      \* run_analysis: agent -> [status, content]
  seq_completed_count,
  seq_final_report,
  seq_signalled,     \* agents whose completion the sequential stream carried
  seq_outcome,       \* what run_analysis displayed last
  req_agent,         \* _create_agent_request: its agent_name argument
  req_stock,         \* _create_agent_request: its stock_code argument
  req_company,       \* _create_agent_request: its company_name argument
  req_out,           \* _create_agent_request: what the call produced
  active_drivers,    \* paxnet_crawl_client._active_drivers
  client             \* thread -> its PaxnetCrawlClient and its position

engineVars == << idx, future_to_agent, yielded, fut, outcome, late, reply_of,
                ret, invoked, sched_error >>
sessionVars == << keys, parallel_results, parallel_progress, parallel_errors,
                  parallel_execution_started, parallel_execution_completed >>
inputVars == << agents, slow, clicks_left, events_left >>
seqVars == << agent_states, seq_completed_count, seq_final_report,
              seq_signalled, seq_outcome >>
callerVars == << run, err_run, warned, synth_calls, stored_report >>

requestVars == << req_agent, req_stock, req_company, req_out >>
driverVars == << active_drivers, client >>
toolVars == << requestVars, driverVars >>
appVars == << inputVars, sessionVars, pc, engineVars, callerVars, seqVars >>

vars == << appVars, toolVars >>

SessionKeys == { "parallel_results", "parallel_progress", "parallel_errors",
                 "parallel_execution_started", "parallel_execution_completed" }

EmptyMap == [a \in {} |-> NoResult]

\* st.session_state.get(key, default) for the two flags
Started == "parallel_execution_started" \in keys /\ parallel_execution_started
Completed == "parallel_execution_completed" \in keys /\ parallel_execution_completed

WaitingProgress ==
  [status |-> "waiting", progress |-> 0, start_time |-> NoneVal,
   end_time |-> NoneVal, error |-> NoneStr]

NoOutcome == [raised |-> FALSE, exc |-> "", value |-> NoResult]

IndexOf(a) == CHOOSE i \in 1..Len(agent_config) : agent_config[i] = a

Running == { a \in AgentNames : fut[a] = "running" }
Pending == { a \in AgentNames : fut[a] = "pending" }

WaitingState == [status |-> "waiting", content |-> ""]

\* a button press reruns the script: what the previous run_analysis held in
\* its locals and showed on the page is gone
SeqLocalsGone ==
  /\ agent_states' = [a \in AgentNames |-> WaitingState]
  /\ seq_completed_count' = 0
  /\ seq_final_report' = FALSE
  /\ seq_signalled' = {}
  /\ seq_outcome' = "none"

Put(m, a, v) == [x \in (DOMAIN m) \cup {a} |-> IF x = a THEN v ELSE m[x]]

Min(x, y) == IF x <= y THEN x ELSE y

\* line 92 with one worker per registered agent
MaxWorkers_all == Len(agent_config)

\* line 92
MaxWorkers == Min(MAX_CONCURRENCY, Len(agent_config))

\* lines 105-106
StartingProgress(p, now) ==
  [p EXCEPT !.status = "starting", !.start_time = now]

\* lines 139-143 without the end time
CompletedProgress_no_end(p, now) ==
  [p EXCEPT !.status = "completed", !.progress = 100]

\* lines 139-143
CompletedProgress(p, now) ==
  [p EXCEPT !.status = "completed", !.progress = 100, !.end_time = now]

\* lines 153-158 putting the agent back in line instead of failing it
ErroredProgress_retry(p, now, msg) ==
  [p EXCEPT !.status = "waiting", !.progress = 0, !.end_time = now, !.error = msg]

\* lines 153-158
ErroredProgress(p, now, msg) ==
  [p EXCEPT !.status = "error", !.progress = 0, !.end_time = now, !.error = msg]

\* line 174 with the comparison off by one
QuorumMet_strict(n) == n > QUORUM

\* line 174
QuorumMet(n) == n >= QUORUM

\* lines 166-169 and 324-327
CompletedAgents(progress) ==
  { a \in DOMAIN progress : progress[a].status = "completed" }

TimeoutError == "TimeoutError"

\* future.result(timeout=300) at the moment the collector calls it: a
\* finished future hands out its outcome at once; one still running after
\* the timeout raises TimeoutError.
FutureResult(a) ==
  IF fut[a] = "finished" THEN outcome[a] ELSE Raised(TimeoutError)

\* as_completed handing out only the futures that did not raise
Ready_successful ==
  { a \in future_to_agent \ yielded : fut[a] = "finished" /\ ~outcome[a].raised }

\* the futures taken in the order of their submission instead
Ready_in_submission_order ==
  { a \in future_to_agent \ yielded :
      /\ fut[a] = "finished"
      /\ \A b \in future_to_agent \ yielded : IndexOf(a) <= IndexOf(b) }

\* as_completed(future_to_agent): the futures it can hand out next
Ready == { a \in future_to_agent \ yielded : fut[a] = "finished" }

----------------------------------------------------------------------------
(* run_parallel_analysis, up to the call of the engine (main.py 397-433)   *)

run_parallel_analysis_begin ==
  /\ UNCHANGED toolVars
  /\ pc = "idle"
  /\ clicks_left > 0
  /\ clicks_left' = clicks_left - 1
  /\ run' = run + 1
  /\ keys' = keys \cup { "parallel_execution_started",
                         "parallel_execution_completed",
                         "parallel_results", "parallel_progress" }
  /\ parallel_execution_started' = TRUE
  /\ parallel_execution_completed' = FALSE
  /\ parallel_results' = EmptyMap
  /\ parallel_progress' = [a \in {} |-> WaitingProgress]
  /\ warned' = FALSE
  /\ synth_calls' = 0
  /\ fut' = [a \in AgentNames |-> "none"]
  /\ outcome' = [a \in AgentNames |-> NoOutcome]
  /\ invoked' = [a \in AgentNames |-> 0]
  /\ late' = {}
  /\ reply_of' = [a \in AgentNames |-> NoReply]
  /\ future_to_agent' = {}
  /\ yielded' = {}
  /\ idx' = 0
  /\ ret' = FALSE
  /\ sched_error' = FALSE
  /\ pc' = "execute"
  /\ SeqLocalsGone
  /\ UNCHANGED << agents, slow, events_left, parallel_errors, err_run,
                  stored_report >>

----------------------------------------------------------------------------
(* execute_agents_parallel (engine 69-179)                                 *)

\* initialize_session_state (54-67): a key is set only when it is missing
InitializedResults ==
  IF "parallel_results" \in keys THEN parallel_results ELSE EmptyMap
InitializedProgress ==
  IF "parallel_progress" \in keys THEN parallel_progress
  ELSE [a \in {} |-> WaitingProgress]
InitializedErrors ==
  IF "parallel_errors" \in keys THEN parallel_errors ELSE [a \in {} |-> ""]
InitializedCompleted ==
  IF "parallel_execution_completed" \in keys THEN parallel_execution_completed
  ELSE FALSE

\* lines 76-89
initialize_run ==
  /\ UNCHANGED toolVars
  /\ pc = "execute"
  /\ keys' = keys \cup SessionKeys
  /\ parallel_results' = InitializedResults
  /\ parallel_errors' = InitializedErrors
  /\ parallel_execution_completed' = InitializedCompleted
  /\ parallel_progress' =
       [a \in (DOMAIN InitializedProgress) \cup AgentNames |->
          IF a \in AgentNames THEN WaitingProgress ELSE InitializedProgress[a]]
  /\ parallel_execution_started' = TRUE
  /\ pc' = "pool"
  /\ UNCHANGED << inputVars, idx, future_to_agent, yielded, fut, outcome, late,
                  reply_of, ret, invoked, sched_error, callerVars, seqVars >>

\* lines 92-98
create_pool ==
  /\ UNCHANGED toolVars
  /\ pc = "pool"
  /\ future_to_agent' = {}
  /\ idx' = 1
  /\ pc' = "submit"
  /\ UNCHANGED << inputVars, sessionVars, yielded, fut, outcome, late, reply_of, ret,
                  invoked, sched_error, callerVars, seqVars >>

\* line 103 taking every registered agent to have a handle
HasHandle_always(a) == TRUE

\* line 103: agent_name in self.agents
HasHandle(a) == a \in DOMAIN agents

\* one round of the loop of lines 100-118; after the last one, lines 121-124
submit_step ==
  /\ UNCHANGED toolVars
  /\ pc = "submit"
  /\ LET a == agent_config[idx] IN
       IF HasHandle(a)
       THEN /\ parallel_progress' =
                 [parallel_progress EXCEPT ![a] = StartingProgress(@, run)]
            /\ fut' = [fut EXCEPT ![a] = "pending"]
            /\ future_to_agent' = future_to_agent \cup {a}
       ELSE UNCHANGED << parallel_progress, fut, future_to_agent >>
  /\ idx' = idx + 1
  /\ pc' = IF idx = Len(agent_config) THEN "drain" ELSE "submit"
  /\ UNCHANGED << inputVars, keys, parallel_results, parallel_errors,
                  parallel_execution_started, parallel_execution_completed,
                  yielded, outcome, late, reply_of, ret, invoked, sched_error, callerVars, seqVars >>

\* ThreadPoolExecutor() or executor.submit raises (no thread can be started):
\* control leaves the with block for the handler of line 176.
scheduler_exception ==
  /\ UNCHANGED toolVars
  /\ pc \in {"pool", "submit"}
  /\ pc' = "unwinding"
  /\ sched_error' = TRUE
  /\ UNCHANGED << inputVars, sessionVars, idx, future_to_agent, yielded, fut,
                  outcome, late, reply_of, ret, invoked, callerVars, seqVars >>

\* executor.__exit__ waits for the submitted work, then lines 176-179
exception_return ==
  /\ UNCHANGED toolVars
  /\ pc = "unwinding"
  /\ \A a \in future_to_agent : fut[a] = "finished"
  /\ parallel_execution_completed' = TRUE
  /\ keys' = keys \cup {"parallel_execution_completed"}
  /\ ret' = FALSE
  /\ pc' = "returned"
  /\ UNCHANGED << inputVars, parallel_results, parallel_progress,
                  parallel_errors, parallel_execution_started, idx,
                  future_to_agent, yielded, fut, outcome, late, reply_of, invoked, sched_error,
                  callerVars, seqVars >>

\* a pool worker takes the oldest queued work item
worker_start(a) ==
  /\ UNCHANGED toolVars
  /\ fut[a] = "pending"
  /\ \A b \in Pending : IndexOf(a) <= IndexOf(b)
  /\ Cardinality(Running) < MaxWorkers
  /\ fut' = [fut EXCEPT ![a] = "running"]
  /\ invoked' = [invoked EXCEPT ![a] = @ + 1]
  /\ UNCHANGED << inputVars, sessionVars, pc, idx, future_to_agent, yielded,
                  outcome, late, reply_of, ret, sched_error, callerVars, seqVars >>

\* _execute_single_agent_with_context returns or raises in its worker
worker_finish(a) ==
  /\ UNCHANGED toolVars
  /\ fut[a] = "running"
  /\ \E reply \in (IF a \in DOMAIN agents THEN agents[a] ELSE {NoReply}),
        isLate \in (IF a \in slow THEN BOOLEAN ELSE {FALSE}) :
       /\ outcome' = [outcome EXCEPT
                        ![a] = ExecuteSingle(a, a \in DOMAIN agents, reply, run)]
       /\ late' = IF isLate THEN late \cup {a} ELSE late
       /\ reply_of' = [reply_of EXCEPT ![a] = reply]
  /\ fut' = [fut EXCEPT ![a] = "finished"]
  /\ UNCHANGED << inputVars, sessionVars, pc, idx, future_to_agent, yielded,
                  ret, invoked, sched_error, callerVars, seqVars >>

\* line 127 reading the variable the loop of line 100 left behind
AgentOfFuture_loop_variable(f) == agent_config[Len(agent_config)]

\* line 127: future_to_agent[future]; a future is named after the agent it
\* was submitted for (line 114)
AgentOfFuture(f) == f

\* lines 147-160 submitting the task of a failed future again
FutureAfterCollect_resubmit(r) == IF r.raised THEN "pending" ELSE "finished"

\* lines 132-160: a future that was collected stays done; neither branch
\* submits anything
FutureAfterCollect(r) == "finished"

\* one round of the loop of lines 126-160, for the future f
collect(f) ==
  /\ UNCHANGED toolVars
  /\ pc = "drain"
  /\ f \in Ready
  /\ yielded' = yielded \cup {f}
  /\ fut' = [fut EXCEPT ![f] = FutureAfterCollect(FutureResult(f))]
  /\ LET agent_name == AgentOfFuture(f)
         r == FutureResult(f)
     IN
       IF ~r.raised
       THEN /\ parallel_results' = Put(parallel_results, agent_name, r.value)
            /\ parallel_progress' =
                 [parallel_progress EXCEPT
                    ![agent_name] = CompletedProgress(@, run)]
            /\ UNCHANGED << parallel_errors, err_run >>
       ELSE /\ parallel_errors' = Put(parallel_errors, agent_name, r.exc)
            /\ err_run' = [err_run EXCEPT ![agent_name] = run]
            /\ parallel_progress' =
                 [parallel_progress EXCEPT
                    ![agent_name] = ErroredProgress(@, run, r.exc)]
            /\ UNCHANGED parallel_results
  /\ UNCHANGED << inputVars, keys, parallel_execution_started,
                  parallel_execution_completed, pc, idx, future_to_agent,
                  outcome, late, reply_of, ret, invoked, sched_error, run, warned, synth_calls,
                  stored_report, seqVars >>

\* the loop of line 126 left at the first future that failed
Drained_until_failure ==
  \/ yielded = future_to_agent
  \/ \E f \in yielded : outcome[f].raised

\* the loop of line 126 is over: as_completed has handed out every future
Drained == yielded = future_to_agent

\* lines 162-174
finish_run ==
  /\ UNCHANGED toolVars
  /\ pc = "drain"
  /\ Drained
  /\ parallel_execution_completed' = TRUE
  /\ ret' = QuorumMet(Cardinality(CompletedAgents(parallel_progress)))
  /\ pc' = "returned"
  /\ UNCHANGED << inputVars, keys, parallel_results, parallel_progress,
                  parallel_errors, parallel_execution_started, idx,
                  future_to_agent, yielded, fut, outcome, late, reply_of, invoked, sched_error,
                  callerVars, seqVars >>

----------------------------------------------------------------------------
(* get_execution_status (engine 318-338).  The float of line 329 is kept    *)
(* as the pair of its numerator and denominator.                            *)

\* lines 329: completed / total when total > 0, else 0
OverallProgress(completed, total) ==
  IF total > 0 THEN << completed, total >> ELSE << 0, 1 >>

\* get_execution_status without the test of the completed flag of line 332
ExecutionStatus_never_completed ==
  IF "parallel_progress" \notin keys
  THEN [status |-> "not_started", progress |-> << 0, 1 >>]
  ELSE [status |-> "running",
        progress |-> OverallProgress(
                       Cardinality(CompletedAgents(parallel_progress)),
                       Len(agent_config))]

ExecutionStatus ==
  IF "parallel_progress" \notin keys
  THEN [status |-> "not_started", progress |-> << 0, 1 >>]
  ELSE [status |-> IF Completed THEN "completed" ELSE "running",
        progress |-> OverallProgress(
                       Cardinality(CompletedAgents(parallel_progress)),
                       Len(agent_config))]

----------------------------------------------------------------------------
(* run_parallel_analysis after the engine returned (main.py 434-552)       *)

\* get_analysis_results reading a key that is never set
AnalysisResults_none == {}

\* get_analysis_results (engine 340-353): the agents that have a result
AnalysisResults ==
  IF "parallel_results" \in keys THEN DOMAIN parallel_results ELSE {}

\* what a call of generate_comprehensive_report may do
SynthOutcomes == {"report", "empty", "raise"}

\* lines 434-552.  The engine never raises, so the handler of line 440 is
\* entered by the raise of line 438 only; it warns and hands over to
\* run_analysis.  Otherwise the report is synthesized at line 456 and, the
\* run being started and completed, again at line 496; each call may come
\* back with a report or empty, or raise: a raise of the first call ends
\* the function in the handler of line 550, a raise of the second is
\* caught at line 531.
after_execute ==
  /\ UNCHANGED toolVars
  /\ pc = "returned"
  /\ IF ~ret \/ Cardinality(AnalysisResults) < MIN_RESULTS
     THEN /\ warned' = TRUE
          /\ pc' = "seq_begin"
          /\ UNCHANGED << synth_calls, stored_report >>
     ELSE /\ \E first \in SynthOutcomes, second \in SynthOutcomes :
               LET enough == Cardinality(AnalysisResults) >= QUORUM
                   reached == ~(enough /\ first = "raise")
                   again == reached /\ Started /\ Completed /\ enough
               IN /\ synth_calls' =
                       (IF enough THEN 1 ELSE 0) + (IF again THEN 1 ELSE 0)
                  /\ stored_report' =
                       IF (enough /\ first = "report")
                          \/ (again /\ second = "report")
                       THEN run ELSE stored_report
          /\ warned' = warned
          /\ pc' = "idle"
  /\ UNCHANGED << inputVars, sessionVars, engineVars, run, err_run, seqVars >>

----------------------------------------------------------------------------
(* run_analysis, the sequential path (main.py 220-393)                     *)

\* the agents the chunks of the stream name
StreamAgents ==
  { agent_config[i] : i \in 1..Min(MaxStreamAgents, Len(agent_config)) }

\* the completion signals the messages of one chunk carry: those of some
\* of the stream's agents, or (the list of messages of the supervisor state
\* at the end of a run) those of all registered agents
SignalSets == (SUBSET StreamAgents) \cup {AgentNames}

\* the chunks stream_korean_stock_analysis may yield: an error chunk, or a
\* supervisor chunk with its stage (the agents named in a "start" stage),
\* its flags and its messages, of which the model keeps the completion
\* signals they contain and whether the text left after removing a signal
\* is longer than 100 characters

Chunks ==
  [error : {TRUE}, stage : {{}}, final : {FALSE}, progressive : {FALSE},
   signals : {{}}, long : {FALSE}]
  \cup
  [error : {FALSE}, stage : SUBSET StreamAgents, final : BOOLEAN,
   progressive : BOOLEAN, signals : SignalSets, long : BOOLEAN]

\* execute_analysis_based_on_method (554-559), sequential method chosen
choose_sequential ==
  /\ UNCHANGED toolVars
  /\ pc = "idle"
  /\ clicks_left > 0
  /\ clicks_left' = clicks_left - 1
  /\ run' = run + 1
  /\ warned' = FALSE
  /\ synth_calls' = 0
  /\ pc' = "seq_begin"
  /\ SeqLocalsGone
  /\ UNCHANGED << agents, slow, events_left, sessionVars, engineVars, err_run,
                  stored_report >>

\* lines 248-257
run_analysis_begin ==
  /\ UNCHANGED toolVars
  /\ pc = "seq_begin"
  /\ agent_states' = [a \in AgentNames |-> WaitingState]
  /\ seq_completed_count' = 0
  /\ seq_final_report' = FALSE
  /\ seq_signalled' = {}
  /\ seq_outcome' = "none"
  /\ pc' = "seq_stream"
  /\ UNCHANGED << inputVars, sessionVars, engineVars, callerVars >>

\* lines 287-297: the first registered agent named in a "start" stage
FirstOf(S) == CHOOSE a \in S : \A b \in S : IndexOf(a) <= IndexOf(b)

AfterStage(states, chunk) ==
  IF chunk.stage # {}
  THEN [states EXCEPT ![FirstOf(chunk.stage)].status = "running"]
  ELSE states

\* lines 324-338: the agents a message completes
NewlyCompleted(states, chunk) ==
  IF chunk.long
  THEN { a \in chunk.signals : states[a].status # "completed" }
  ELSE {}

\* one round of the loop of lines 276-354
seq_event ==
  /\ UNCHANGED toolVars
  /\ pc = "seq_stream"
  /\ events_left > 0
  /\ events_left' = events_left - 1
  /\ \E chunk \in Chunks :
       IF chunk.error
       THEN \* lines 277-279
            /\ seq_outcome' = "error"
            /\ pc' = "idle"
            /\ UNCHANGED << agent_states, seq_completed_count,
                            seq_final_report, seq_signalled >>
       ELSE LET staged == AfterStage(agent_states, chunk)
                done == NewlyCompleted(staged, chunk)
            IN IF chunk.final
               THEN \* lines 300-310
                    /\ agent_states' = staged
                    /\ seq_final_report' =
                         (seq_final_report \/ (chunk.progressive /\ chunk.long))
                    /\ UNCHANGED << seq_completed_count, seq_signalled,
                                    seq_outcome, pc >>
               ELSE \* lines 312-354
                    /\ agent_states' =
                         [a \in AgentNames |->
                            IF a \in done
                            THEN [status |-> "completed", content |-> "stream"]
                            ELSE staged[a]]
                    /\ seq_completed_count' =
                         seq_completed_count + Cardinality(done)
                    /\ seq_signalled' = seq_signalled \cup done
                    /\ UNCHANGED << seq_final_report, seq_outcome, pc >>
  /\ UNCHANGED << agents, slow, clicks_left, sessionVars, engineVars,
                  run, err_run, warned, synth_calls, stored_report >>

\* the stream is exhausted: lines 357-387
seq_end ==
  /\ UNCHANGED toolVars
  /\ pc = "seq_stream"
  /\ IF seq_final_report /\ seq_completed_count >= QUORUM
     THEN /\ seq_outcome' = "report"
          /\ stored_report' = run
     ELSE /\ seq_outcome' =
               (IF seq_completed_count < 7 THEN "warning" ELSE "nothing")
          /\ UNCHANGED stored_report
  /\ pc' = "idle"
  /\ UNCHANGED << inputVars, sessionVars, engineVars, run, err_run, warned,
                  synth_calls, agent_states, seq_completed_count,
                  seq_final_report, seq_signalled >>

----------------------------------------------------------------------------
(* _reset_parallel_execution (streamlit_helpers.py 164-173)                *)

\* lines 166-169 with the completed flag left out of the list
keys_to_reset_without_completed ==
  { "parallel_results", "parallel_progress", "parallel_errors",
    "parallel_execution_started" }

\* lines 166-169
keys_to_reset ==
  { "parallel_results", "parallel_progress", "parallel_errors",
    "parallel_execution_started", "parallel_execution_completed" }

\* lines 170-172: every listed key that is in the session state is deleted
reset ==
  /\ UNCHANGED toolVars
  /\ pc = "idle"
  /\ keys \cap keys_to_reset # {}
  /\ keys' = keys \ keys_to_reset
  /\ parallel_results' =
       IF "parallel_results" \in keys_to_reset THEN EmptyMap
       ELSE parallel_results
  /\ parallel_progress' =
       IF "parallel_progress" \in keys_to_reset
       THEN [a \in {} |-> WaitingProgress] ELSE parallel_progress
  /\ parallel_errors' =
       IF "parallel_errors" \in keys_to_reset THEN [a \in {} |-> ""]
       ELSE parallel_errors
  /\ parallel_execution_started' =
       IF "parallel_execution_started" \in keys_to_reset THEN FALSE
       ELSE parallel_execution_started
  /\ parallel_execution_completed' =
       IF "parallel_execution_completed" \in keys_to_reset THEN FALSE
       ELSE parallel_execution_completed
  /\ err_run' =
       IF "parallel_errors" \in keys_to_reset THEN [a \in AgentNames |-> 0]
       ELSE err_run
  /\ UNCHANGED << inputVars, engineVars, pc, run, warned, synth_calls,
                  stored_report, seqVars >>

----------------------------------------------------------------------------
(* _create_agent_request (engine 288-301), called on its own                *)

UnknownIds == {"unknown_expert", ""}
StockCodes == {"005930", "000660", "035420"}
CompanyNames == {"", "Samsung"}

NoRequest == [called |-> FALSE, raised |-> FALSE, text |-> <<>>]

\* base_requests.get(agent_name, default): the text for a registered agent
\* names the stock code and the company, the default only the stock code
CreateAgentRequest(agent_name, stock_code, company_name) ==
  IF agent_name \in AgentNames
  THEN [called |-> TRUE, raised |-> FALSE,
        text |-> <<agent_name, stock_code, company_name>>]
  ELSE [called |-> TRUE, raised |-> FALSE, text |-> <<"analysis", stock_code>>]

create_agent_request ==
  /\ ~req_out.called
  /\ req_out' = CreateAgentRequest(req_agent, req_stock, req_company)
  /\ UNCHANGED << appVars, driverVars, req_agent, req_stock, req_company >>

----------------------------------------------------------------------------
(* fetch_paxnet_discussions with PaxnetCrawlClient.setup_driver and close   *)
(* (paxnet_crawl_client.py).  Each thread makes one call at a time, with a  *)
(* client of its own; a block under _driver_lock is one step; the id of a   *)
(* thread's driver is the thread's number.                                  *)

Threads == 1..MaxThreads

max_concurrent_drivers == 2

NoDriver == 0

\* what fetch_paxnet_discussions gave its caller: whether it has returned,
\* whether it left by an exception, whether the value has an error field,
\* and whether it has posts
NoFetch == [returned |-> FALSE, raised |-> FALSE, error |-> FALSE, posts |-> FALSE]

\* lines 318-326 letting the failure out as an exception
DriverUnavailable_raise ==
  [returned |-> TRUE, raised |-> TRUE, error |-> FALSE, posts |-> FALSE]

\* lines 318-326: the value returned when setup_driver returned False
DriverUnavailable ==
  [returned |-> TRUE, raised |-> FALSE, error |-> TRUE, posts |-> FALSE]

\* fetch_stock_discussions, lines 127-147: posts, or an error value
FetchOutcomes ==
  { [returned |-> TRUE, raised |-> FALSE, error |-> FALSE, posts |-> TRUE],
    [returned |-> TRUE, raised |-> FALSE, error |-> TRUE, posts |-> FALSE] }

IdleClient ==
  [at |-> "idle", driver |-> NoDriver, ok |-> "none", result |-> NoFetch]

\* lines 49-53: the capacity check, under the lock
setup_driver_check(t) ==
  /\ client[t].at = "idle"
  /\ client' =
       [client EXCEPT ![t] =
          IF Cardinality(active_drivers) >= max_concurrent_drivers
          THEN [@ EXCEPT !.ok = "false", !.result = DriverUnavailable]
          ELSE [@ EXCEPT !.at = "creating", !.ok = "none", !.result = NoFetch]]
  /\ UNCHANGED << appVars, requestVars, active_drivers >>

\* lines 55-84: webdriver.Chrome starts a browser, or both attempts raise
\* and line 98-100 returns False
setup_driver_create(t) ==
  /\ client[t].at = "creating"
  /\ \E started \in BOOLEAN :
       client' =
         [client EXCEPT ![t] =
            IF started THEN [@ EXCEPT !.at = "configuring", !.driver = t]
            ELSE [@ EXCEPT !.at = "idle", !.ok = "false",
                           !.result = DriverUnavailable]]
  /\ UNCHANGED << appVars, requestVars, active_drivers >>

\* lines 87-89: the timeouts are set, or setting one raises and line 98-100
\* returns False with the browser running and not registered
setup_driver_configure(t) ==
  /\ client[t].at = "configuring"
  /\ \E configured \in BOOLEAN :
       client' =
         [client EXCEPT ![t] =
            IF configured THEN [@ EXCEPT !.at = "registering"]
            ELSE [@ EXCEPT !.at = "open", !.ok = "false",
                           !.result = DriverUnavailable]]
  /\ UNCHANGED << appVars, requestVars, active_drivers >>

\* lines 92-96: the registration, under the lock
setup_driver_register(t) ==
  /\ client[t].at = "registering"
  /\ active_drivers' = active_drivers \cup {client[t].driver}
  /\ client' = [client EXCEPT ![t] = [@ EXCEPT !.at = "open", !.ok = "true"]]
  /\ UNCHANGED << appVars, requestVars >>

\* line 331 with fetch_stock_discussions (102-147) on the driver set up
fetch_stock_discussions(t) ==
  /\ client[t].at = "open"
  /\ client[t].ok = "true"
  /\ ~client[t].result.returned
  /\ \E r \in FetchOutcomes :
       client' = [client EXCEPT ![t] = [@ EXCEPT !.result = r]]
  /\ UNCHANGED << appVars, requestVars, active_drivers >>

\* __exit__ and close, lines 279-282: driver.quit() ends the browser, or
\* raises and lines 289-292 drop the driver without taking its id out of
\* the set
close_quit(t) ==
  /\ client[t].at = "open"
  /\ client[t].result.returned
  /\ \E quitted \in BOOLEAN :
       client' =
         [client EXCEPT ![t] =
            IF quitted THEN [@ EXCEPT !.at = "quit"]
            ELSE [@ EXCEPT !.at = "idle", !.driver = NoDriver]]
  /\ UNCHANGED << appVars, requestVars, active_drivers >>

\* close, lines 285-292: the id is discarded under the lock
close_discard(t) ==
  /\ client[t].at = "quit"
  /\ active_drivers' = active_drivers \ {client[t].driver}
  /\ client' = [client EXCEPT ![t] = [@ EXCEPT !.at = "idle", !.driver = NoDriver]]
  /\ UNCHANGED << appVars, requestVars >>

\* browsers that are running
LiveDrivers ==
  { t \in Threads : client[t].driver # NoDriver /\ client[t].at # "quit" }

----------------------------------------------------------------------------
(* Specifications *)

InitState ==
  /\ keys = {}
  /\ parallel_results = EmptyMap
  /\ parallel_progress = [a \in {} |-> WaitingProgress]
  /\ parallel_errors = [a \in {} |-> ""]
  /\ parallel_execution_started = FALSE
  /\ parallel_execution_completed = FALSE
  /\ pc = "idle"
  /\ idx = 0
  /\ future_to_agent = {}
  /\ yielded = {}
  /\ fut = [a \in AgentNames |-> "none"]
  /\ outcome = [a \in AgentNames |-> NoOutcome]
  /\ late = {}
  /\ reply_of = [a \in AgentNames |-> NoReply]
  /\ ret = FALSE
  /\ sched_error = FALSE
  /\ run = 0
  /\ err_run = [a \in AgentNames |-> 0]
  /\ invoked = [a \in AgentNames |-> 0]
  /\ warned = FALSE
  /\ synth_calls = 0
  /\ stored_report = 0
  /\ agent_states = [a \in AgentNames |-> WaitingState]
  /\ seq_completed_count = 0
  /\ seq_final_report = FALSE
  /\ seq_signalled = {}
  /\ seq_outcome = "none"

\* no request is being built and no thread uses a browser
InitRequest ==
  /\ req_agent = agent_config[1]
  /\ req_stock = "005930"
  /\ req_company = ""
  /\ req_out = NoRequest

InitDrivers ==
  /\ active_drivers = {}
  /\ client = [t \in Threads |-> IdleClient]

\* every agent was created; a handle answers or fails: the first one by
\* returning no messages, the others by raising
InitFull ==
  /\ InitState
  /\ InitRequest
  /\ InitDrivers
  /\ agents = [a \in AgentNames |->
                 IF a = agent_config[1] THEN {NoMsgReply, GoodReply}
                 ELSE {RaiseReply, GoodReply}]
  /\ slow = {}
  /\ clicks_left = 1
  /\ events_left = 1

\* create_all_agents produced only some handles; two buttons are pressed
DegradedAgents == { agent_config[i] : i \in 2..Min(MaxHandles + 1, Len(agent_config)) }

Init ==
  /\ InitState
  /\ InitRequest
  /\ InitDrivers
  /\ agents = [a \in DegradedAgents |-> {RaiseReply, GoodReply}]
  /\ slow = {}
  /\ clicks_left = MaxRuns
  /\ events_left = 1

\* one handle, any reply, any duration
InitContent ==
  /\ InitState
  /\ InitRequest
  /\ InitDrivers
  /\ \E i \in 1..Min(MaxHandles, Len(agent_config)) :
       agents = [b \in {agent_config[i]} |-> AllReplies]
  /\ slow = DOMAIN agents
  /\ clicks_left = 1
  /\ events_left = 1

Workers == \E a \in AgentNames : worker_start(a) \/ worker_finish(a)

Collector == \E a \in AgentNames : collect(a)

Next ==
  \/ run_parallel_analysis_begin
  \/ initialize_run
  \/ create_pool
  \/ submit_step
  \/ scheduler_exception
  \/ exception_return
  \/ Workers
  \/ Collector
  \/ finish_run
  \/ after_execute
  \/ choose_sequential
  \/ run_analysis_begin
  \/ seq_event
  \/ seq_end
  \/ reset

Spec == Init /\ [][Next]_vars

SpecFull == InitFull /\ [][Next]_vars

SpecContent == InitContent /\ [][Next]_vars

\* The run of a complete handle map when threads can be started: the script
\* thread and the pool's workers keep running, and every invocation ends.
NextNormal ==
  \/ run_parallel_analysis_begin
  \/ initialize_run
  \/ create_pool
  \/ submit_step
  \/ Workers
  \/ Collector
  \/ finish_run
  \/ after_execute
  \/ run_analysis_begin
  \/ seq_event
  \/ seq_end

\* the steps of execute_agents_parallel and of its pool
EngineStep ==
  \/ initialize_run
  \/ create_pool
  \/ submit_step
  \/ Workers
  \/ Collector
  \/ finish_run

Fairness == WF_vars(EngineStep)

\* every agent was created; the first k handles raise, the others answer
InitLive ==
  /\ InitState
  /\ InitRequest
  /\ InitDrivers
  /\ \E k \in 0..Len(agent_config) :
       agents = [a \in AgentNames |->
                   IF IndexOf(a) <= k THEN {RaiseReply} ELSE {GoodReply}]
  /\ slow = {}
  /\ clicks_left = 1
  /\ events_left = 1

LiveFull == InitLive /\ [][NextNormal]_vars /\ Fairness

\* _create_agent_request called with any agent id, stock code and company
InitRegistry ==
  /\ InitState
  /\ InitDrivers
  /\ agents = [a \in AgentNames |-> {GoodReply}]
  /\ slow = {}
  /\ clicks_left = 0
  /\ events_left = 0
  /\ req_agent \in AgentNames \cup UnknownIds
  /\ req_stock \in StockCodes
  /\ req_company \in CompanyNames
  /\ req_out = NoRequest

NextRegistry == create_agent_request

SpecRegistry == InitRegistry /\ [][NextRegistry]_vars

\* the sequential method is chosen and the stream yields up to MaxEvents
\* chunks
InitSeq ==
  /\ InitState
  /\ InitRequest
  /\ InitDrivers
  /\ agents = [a \in AgentNames |-> {GoodReply}]
  /\ slow = {}
  /\ clicks_left = 1
  /\ events_left = MaxEvents

NextSeq ==
  \/ choose_sequential
  \/ run_analysis_begin
  \/ seq_event
  \/ seq_end

SpecSeq == InitSeq /\ [][NextSeq]_vars

\* threads of the process setting up and closing browser drivers
InitBrowsers ==
  /\ InitState
  /\ InitRequest
  /\ InitDrivers
  /\ agents = [a \in AgentNames |-> {GoodReply}]
  /\ slow = {}
  /\ clicks_left = 0
  /\ events_left = 0

NextBrowsers ==
  \E t \in Threads :
    \/ setup_driver_check(t)
    \/ setup_driver_create(t)
    \/ setup_driver_configure(t)
    \/ setup_driver_register(t)
    \/ fetch_stock_discussions(t)
    \/ close_quit(t)
    \/ close_discard(t)

SpecBrowsers == InitBrowsers /\ [][NextBrowsers]_vars

AllTerminal ==
  /\ DOMAIN parallel_progress = AgentNames
  /\ \A a \in AgentNames : parallel_progress[a].status \in {"completed", "error"}


----------------------------------------------------------------------------
(* Properties *)

StatusOf(a) ==
  IF a \in DOMAIN parallel_progress THEN parallel_progress[a].status ELSE "absent"

WithStatus(st) == { a \in AgentNames : StatusOf(a) = st }

\* C1: when execute_agents_parallel has returned, it returned true exactly
\* when at least 5 agents have the progress status 'completed'.
C1_QuorumLaw ==
  pc = "returned" => (ret <=> Cardinality(WithStatus("completed")) >= 5)

C1_Witness ==
  /\ pc = "returned"
  /\ ret
  /\ Cardinality(WithStatus("completed")) = 5
  /\ Cardinality(WithStatus("error")) = 3

C3_TimeoutRecorded ==
  \A a \in late \cap yielded :
    a \in DOMAIN parallel_progress =>
      /\ parallel_progress[a].status = "error"
      /\ parallel_progress[a].error = TimeoutError

\* C4: a collected task whose handle answered with a message that is empty
\* once stripped is recorded as 'error' and has no entry in the result map.
C4_EmptyIsError ==
  \A a \in yielded :
    (/\ a \in DOMAIN parallel_progress
     /\ reply_of[a].kind = "msg"
     /\ Strip(reply_of[a].content) = <<>>)
    => /\ parallel_progress[a].status = "error"
       /\ a \notin DOMAIN parallel_results

\* C5: run_parallel_analysis calls the engine first; when the engine returned
\* false the caller warns and goes on to run_analysis, when it returned true
\* the caller finishes without run_analysis; run_analysis is entered with
\* the warning only from the engine's return.
C5_FallbackPolicy ==
  [][ /\ (pc = "returned" /\ pc' # pc /\ ret) => (pc' = "idle" /\ ~warned')
      /\ (pc = "returned" /\ pc' # pc /\ ~ret) => (pc' = "seq_begin" /\ warned')
      /\ (pc # "seq_begin" /\ pc' = "seq_begin" /\ warned') => pc = "returned"
      /\ (pc = "idle" /\ pc' = "execute") => ~warned'
    ]_vars

C5_Witness ==
  /\ pc = "seq_begin"
  /\ warned
  /\ ~ret
  /\ Completed
  /\ Cardinality(WithStatus("completed")) = 4
  /\ Cardinality(WithStatus("error")) = 4

\* C6: while the sequential path runs as a fallback for a parallel run that
\* collected its tasks and missed the quorum, the parallel progress,
\* result and error maps are empty and the started and completed flags are
\* off, and every agent the sequential run has completed was completed by
\* the sequential stream.
C6_ParallelStateDiscarded ==
  (pc \in {"seq_begin", "seq_stream"} /\ warned /\ yielded # {}) =>
    /\ DOMAIN InitializedProgress = {}
    /\ AnalysisResults = {}
    /\ DOMAIN InitializedErrors = {}
    /\ ~Started
    /\ ~Completed
    /\ (pc = "seq_stream" =>
          /\ \A a \in AgentNames :
               agent_states[a].status = "completed" => a \in seq_signalled
          /\ seq_completed_count = Cardinality(seq_signalled))

\* C7: once a call of execute_agents_parallel has initialized its run, no
\* progress, result or error entry written by an earlier run is in the
\* session state, and the completed flag is on only when this call set it.
C7_NoStaleState ==
  pc \in {"pool", "submit", "drain", "unwinding", "returned"} =>
    /\ \A a \in DOMAIN parallel_progress :
         /\ parallel_progress[a].start_time \in {NoneVal, run}
         /\ parallel_progress[a].end_time \in {NoneVal, run}
    /\ \A a \in DOMAIN parallel_results :
         parallel_results[a].execution_time = run
    /\ \A a \in DOMAIN parallel_errors : err_run[a] = run
    /\ (Completed => pc = "returned")

Rank(st) ==
  CASE st = "waiting" -> 0
    [] st = "starting" -> 1
    [] st = "running" -> 2
    [] st \in {"completed", "error"} -> 3

\* C8: within one run an agent's status never moves backward along
\* waiting, starting, running, completed/error, and the progress record of
\* an agent that is completed or in error does not change any more.
C8_Monotonic ==
  [][ \A a \in AgentNames :
        (/\ run' = run
         /\ a \in DOMAIN parallel_progress
         /\ a \in DOMAIN parallel_progress')
        => /\ Rank(parallel_progress'[a].status) >= Rank(parallel_progress[a].status)
           /\ (Rank(parallel_progress[a].status) = 3
                 => parallel_progress'[a] = parallel_progress[a])
    ]_vars

C8_Witness ==
  /\ pc = "drain"
  /\ WithStatus("error") # {}
  /\ WithStatus("starting") # {}
  /\ WithStatus("waiting") # {}

\* C9: an agent with status 'completed' has an end time and an entry in the
\* result map; an agent with status 'error' has an error text.
C9_TerminalRecords ==
  \A a \in DOMAIN parallel_progress :
    /\ parallel_progress[a].status = "completed" =>
         /\ parallel_progress[a].end_time # NoneVal
         /\ "parallel_results" \in keys
         /\ a \in DOMAIN parallel_results
    /\ parallel_progress[a].status = "error" =>
         parallel_progress[a].error # NoneStr

C9_Witness ==
  /\ pc = "drain"
  /\ \E a \in WithStatus("completed") : a \in DOMAIN parallel_results
  /\ \E a \in WithStatus("error") : parallel_progress[a].error = InvokeError

\* C10: at most min(2, number of registered agents) invocations are in
\* progress at any moment.
C10_BoundedConcurrency ==
  /\ Cardinality(Running) <= 2
  /\ Cardinality(Running) <= Len(agent_config)

C10_Witness ==
  /\ Cardinality(Running) = 2
  /\ Cardinality(Pending) >= 2

\* C11: every result is stored under the id of the agent whose task produced
\* it, and what is recorded for a collected agent (its result, or its error
\* in the progress entry and in the error map) is the outcome of that
\* agent's own task, whatever the other tasks are doing.
C11_Partition ==
  /\ \A a \in DOMAIN parallel_results : parallel_results[a].agent_name = a
  /\ pc \in {"drain", "returned"} =>
       \A a \in AgentNames :
         /\ (a \in yielded /\ ~outcome[a].raised) =>
              /\ a \in DOMAIN parallel_results
              /\ parallel_results[a] = outcome[a].value
              /\ parallel_progress[a].status = "completed"
         /\ (a \in yielded /\ outcome[a].raised) =>
              /\ a \notin DOMAIN parallel_results
              /\ parallel_progress[a].status = "error"
              /\ parallel_progress[a].error = outcome[a].exc
         /\ a \notin yielded =>
              /\ a \notin DOMAIN parallel_results
              /\ parallel_progress[a].status \in {"waiting", "starting"}

C11_Witness ==
  /\ pc = "drain"
  /\ Cardinality(Running) = 2
  /\ \E a \in yielded : ~outcome[a].raised /\ a \in DOMAIN parallel_results
  /\ \E a \in yielded : outcome[a].raised
  /\ \E a \in Ready : TRUE

\* C12: once a task has been submitted every registered agent has a progress
\* entry, and from the moment the started flag is on until the call of
\* execute_agents_parallel has returned the progress map has a key for
\* every registered agent.
C12_KeysPreallocated ==
  /\ (\E a \in AgentNames : fut[a] # "none") =>
       AgentNames \subseteq DOMAIN parallel_progress
  /\ (Started /\ pc \in {"execute", "pool", "submit", "drain", "unwinding"}) =>
       AgentNames \subseteq DOMAIN InitializedProgress

\* occurrences of the completion signal in a text
RECURSIVE CountSignal(_)
CountSignal(s) ==
  IF s = <<>> THEN 0
  ELSE (IF Head(s) = "M" THEN 1 ELSE 0) + CountSignal(Tail(s))

\* C13: for a message the task executor has processed: when the agent's
\* output contained the completion signal the final content is the output
\* itself (same text, same length, same number of signals); when it did not,
\* the final content is the stripped output followed by the signal, which
\* then occurs exactly once; and the append step applied to the final
\* content gives the final content again.
C13_MarkerIdempotent ==
  \A a \in DOMAIN agents :
    (fut[a] = "finished" /\ reply_of[a].kind = "msg") =>
      LET before == reply_of[a].content
          after == outcome[a].value.content
      IN /\ Contains(before, "M") =>
              /\ after = before
              /\ Len(after) = Len(before)
              /\ CountSignal(after) = CountSignal(before)
         /\ ~Contains(before, "M") =>
              /\ after = Strip(before) \o <<"w", "w", "M">>
              /\ CountSignal(after) = 1
         /\ AppendSignal(a, after) = after

C13_Witness ==
  \E a \in DOMAIN agents :
    /\ fut[a] = "finished"
    /\ reply_of[a] = MsgReply(<<"M", "w">>)
    /\ outcome[a].value.content = <<"M", "w">>

C15_SchedulerErrorPropagates == ~(pc = "returned" /\ sched_error)

\* C16: get_execution_status reports 'not_started' when the started flag is
\* off, 'running' when it is on and the completed flag is off, 'completed'
\* when the completed flag is on; its progress is the number of agents with
\* status 'completed' over the number of registered agents and lies between
\* 0 and 1.
C16_Snapshot ==
  LET snapshot == ExecutionStatus
      num == snapshot.progress[1]
      den == snapshot.progress[2]
  IN /\ ~Started => snapshot.status = "not_started"
     /\ (Started /\ ~Completed) => snapshot.status = "running"
     /\ Completed => snapshot.status = "completed"
     /\ den > 0
     /\ num * Len(agent_config) = Cardinality(WithStatus("completed")) * den
     /\ 0 <= num
     /\ num <= den

C16_Witness ==
  /\ run = 2
  /\ pc = "drain"
  /\ ExecutionStatus.status = "running"
  /\ ExecutionStatus.progress = << 1, 8 >>
  /\ WithStatus("error") # {}

\* C17: a call of _create_agent_request for an agent id that is not
\* registered raises and produces no request text.
C17_UnknownAgentRejected ==
  (req_out.called /\ req_agent \notin AgentNames) =>
    /\ req_out.raised
    /\ req_out.text = <<>>

\* C18: whatever the interleaving of the threads that set up and close
\* drivers, the set of active drivers never holds more than 2 drivers.
C18_DriverCeiling == Cardinality(active_drivers) <= 2

\* C19: the completed flag is on only when every submitted task has been
\* collected and its agent is 'completed' or 'error'; and when the engine
\* has returned, every collected task that succeeded has its result in the
\* result map.
C19_CompletedAfterDrain ==
  /\ Completed =>
       \A a \in future_to_agent :
         /\ a \in yielded
         /\ StatusOf(a) \in {"completed", "error"}
  /\ pc = "returned" =>
       \A a \in yielded :
         ~outcome[a].raised =>
           /\ "parallel_results" \in keys
           /\ a \in DOMAIN parallel_results
           /\ parallel_results[a] = outcome[a].value

\* C20: while the engine collects, a task that has finished can be recorded
\* at once, whichever tasks submitted before it are still running or not
\* yet recorded.
C20_CompletionOrder ==
  pc = "drain" =>
    \A a \in future_to_agent :
      (fut[a] = "finished" /\ a \notin yielded) => ENABLED collect(a)

C20_Witness ==
  /\ pc = "drain"
  /\ fut[agent_config[1]] = "running"
  /\ agent_config[Len(agent_config)] \in yielded
  /\ StatusOf(agent_config[Len(agent_config)]) \in {"completed", "error"}
  /\ StatusOf(agent_config[1]) = "starting"

\* C21: an agent whose invocation is in progress in a worker has the status
\* 'running' in the progress map.
C21_RunningObservable ==
  \A a \in AgentNames : fut[a] = "running" => StatusOf(a) = "running"

\* C22: during a run, a registered agent without a handle has no task and
\* is not invoked, has no result and no error entry, and its progress entry
\* is the one the run was initialized with: 'waiting', progress 0, no
\* timestamps, no error.
C22_MissingHandleSkipped ==
  pc \in {"pool", "submit", "drain", "unwinding", "returned"} =>
    \A a \in AgentNames \ DOMAIN agents :
      /\ a \notin future_to_agent
      /\ fut[a] = "none"
      /\ invoked[a] = 0
      /\ parallel_progress[a] = WaitingProgress
      /\ a \notin DOMAIN parallel_errors
      /\ a \notin DOMAIN parallel_results

C22_Witness ==
  /\ pc = "returned"
  /\ ~sched_error
  /\ AgentNames \ DOMAIN agents # {}
  /\ yielded = DOMAIN agents
  /\ yielded # {}
  /\ StatusOf(agent_config[1]) = "waiting"

\* C23: within one run no handle is invoked more than once.
C23_NoRetry == \A a \in AgentNames : invoked[a] <= 1

C23_Witness ==
  /\ pc = "returned"
  /\ \E a \in yielded : outcome[a].raised /\ invoked[a] = 1
  /\ \A a \in DOMAIN agents : a \in yielded

\* C24: the completed flag is never on while the started flag is off, and
\* the completed flag goes from on to off only in a step that is the
\* explicit reset (the started flag is off afterwards) or the start of a
\* new run.
C24_FlagOrder ==
  /\ [](Completed => Started)
  /\ [][ (Completed /\ ~Completed') => (~Started' \/ run' = run + 1) ]_vars

\* a run was drained and completed, and the reset has taken its flags away
C24_Witness ==
  /\ run = 1
  /\ pc = "idle"
  /\ yielded # {}
  /\ Drained
  /\ ~Completed
  /\ ~Started
  /\ "parallel_execution_completed" \notin keys

\* C29: in a parallel run generate_comprehensive_report is called at most
\* once, it is called when the run met the quorum, and it is not called
\* with fewer than 5 results.
C29_SynthesizedOnce ==
  /\ synth_calls <= 1
  /\ (synth_calls > 0 /\ Completed) => Cardinality(AnalysisResults) >= 5
  /\ (pc = "idle" /\ run >= 1 /\ ret /\ ~warned /\ Completed) => synth_calls >= 1

\* C25: a call of fetch_paxnet_discussions whose setup_driver returned False
\* (the ceiling was reached, or no driver could be created or configured)
\* has returned a value with an error field and no posts; and no call left
\* by an exception.
C25_DegradedNotRaised ==
  \A t \in Threads :
    /\ ~client[t].result.raised
    /\ client[t].ok = "false" =>
         /\ client[t].result.returned
         /\ client[t].result.error
         /\ ~client[t].result.posts

C25_Witness ==
  /\ Cardinality(active_drivers) = 2
  /\ \E t \in Threads \ active_drivers :
       /\ client[t].at = "idle"
       /\ client[t].ok = "false"
       /\ client[t].result = DriverUnavailable
  /\ \A t \in active_drivers : client[t].at = "open" /\ client[t].ok = "true"

\* C28: when every client has been closed the set of active drivers is
\* empty.
C28_ClosedMeansRemoved ==
  (\A t \in Threads : client[t].at = "idle") => active_drivers = {}

\* the agents run_analysis shows as running, and as completed
SeqWithStatus(st) == { a \in AgentNames : agent_states[a].status = st }

\* C26: while run_analysis consumes its stream, at most one agent has the
\* status 'running' in agent_states.
C26_OneRunning ==
  pc = "seq_stream" => Cardinality(SeqWithStatus("running")) <= 1

\* C27: while run_analysis consumes its stream, completed_count is the
\* number of agents whose state is 'completed' and is at most 8.
C27_CountMatches ==
  pc = "seq_stream" =>
    /\ seq_completed_count = Cardinality(SeqWithStatus("completed"))
    /\ seq_completed_count <= Len(agent_config)

\* C30: a sequential run that has ended has displayed the final report, a
\* warning or an error; the report of this run is stored only when a final
\* report exists, at least 5 agents were counted completed and the stream
\* gave no error chunk.
C30_VisibleOutcome ==
  (pc = "idle" /\ seq_outcome # "none") =>
    /\ seq_outcome \in {"report", "warning", "error"}
    /\ stored_report = run =>
         /\ seq_outcome = "report"
         /\ seq_final_report
         /\ seq_completed_count >= 5

====
